---- MODULE Spec2Model ----
(***************************************************************************)
(* LexFlow license generator v2 (scripts/generate_license_v2.py).          *)
(*                                                                         *)
(* The model covers the encrypted registry of issued keys (load_registry,  *)
(* save_registry, get_registry_password), the token minted by cmd_generate *)
(* and parsed by cmd_verify, and the read-only commands.                   *)
(*                                                                         *)
(* Abstractions, stated once:                                              *)
(*  - time is counted in abstract ticks instead of milliseconds; the range *)
(*    datetime.fromtimestamp accepts (years 1..9999) is TsMin..TsMax;      *)
(*  - Scrypt, AES-GCM, Ed25519 and SHA-256 are symbolic: a key is the pair *)
(*    <<password, salt>>, a ciphertext opens only under the key that made  *)
(*    it, a signature verifies only for the signer and the signed text,    *)
(*    and a hash is injective;                                             *)
(*  - random values (token nonce, uuid, salt, AEAD nonce) are fresh        *)
(*    numbers drawn from the counter rnd;                                  *)
(*  - a file is its kind (absent / short / torn / blob), its length and,   *)
(*    for a blob, what was encrypted; the length of a blob grows with the  *)
(*    number of entries;                                                   *)
(*  - the display-only fields issued_at and expires_at of an entry are     *)
(*    left out.                                                            *)
(***************************************************************************)
EXTENDS Integers, Sequences, FiniteSets, TLC

\* ---------------------------------------------------------------- bounds
MaxMint == 2        \* tokens minted (line 190 reached) in one behaviour
MaxRaceMint == MaxMint + 1   \* the same, when two processes run
MaxNow == 2         \* the clock runs over 1..MaxNow

\* ------------------------------------------------------ program constants
NonceLen == 12      \* len(data) < 12, data[:12]
MinPwdLen == 8      \* len(pwd1) < 8
KeyLen == 32        \* len(priv_key_bytes) != 32
YearTicks == 2      \* 365.25 * 86400 seconds, in ticks
TsMin == -3         \* datetime.fromtimestamp: year 1, in ticks
TsMax == 9          \* datetime.fromtimestamp: year 9999, in ticks

Procs == {1, 2}
Operator == 1

\* ------------------------------------------------------------ input sets
\* password p has MinPwdLen - 2 + p characters: password 1 is too short
Passwords == {1, 2}
PwdLen(p) == MinPwdLen - 2 + p

Clients == {"", "Acme"}
NoId == 0
IdInputs == {NoId, 1}                 \* "" (auto) or the id "A1"
AutoIdBase == 100
Days == {0, 1}
DateInputs == {[kind |-> "empty", day |-> 0], [kind |-> "bad", day |-> 0]}
              \cup {[kind |-> "date", day |-> d] : d \in Days}
\* pasted private keys: the 32-byte key, a 16-byte value, text that is not Base64
TheKey == 1
KeyInputs == {[b64 |-> TRUE, len |-> KeyLen, key |-> TheKey],
              [b64 |-> TRUE, len |-> 16, key |-> 0],
              [b64 |-> FALSE, len |-> 0, key |-> 0]}
Confirms == {"s", "n"}

\* ------------------------------------------------------------- the files
NoSalt == 0
EmptySalt == -1       \* the salt file opened for writing, nothing written yet
NoKey == <<0, 0>>
NoFile == [kind |-> "absent", size |-> 0, nonce |-> 0, key |-> NoKey, pt |-> << >>]
ShortFile(n) == [kind |-> "short", size |-> n, nonce |-> 0, key |-> NoKey, pt |-> << >>]
TornFile(n) == [kind |-> "torn", size |-> n, nonce |-> 0, key |-> NoKey, pt |-> << >>]

VARIABLES
    regFile,      \* REGISTRY_FILE
    saltFile,     \* REGISTRY_SALT_FILE: NoSalt or the salt
    now,          \* the clock, int(time.time() * 1000)
    rnd,          \* random values drawn so far
    budget,       \* tokens that may still be minted (bounds the behaviour)
    pc,           \* per process: where it is in cmd_generate / save_registry
    reg_pwd,      \* per process: cmd_generate's reg_pwd
    registry,     \* per process: cmd_generate's registry (after the append)
    pending,      \* per process: the token and entry being registered
    salt,         \* per process: save_registry's salt
    blob,         \* per process: save_registry's nonce + ciphertext
    out,          \* per process: what the last command reported
    stored,       \* history: the entries on disk when the latest command began
    issued,       \* history: tokens printed by a completed cmd_generate
    raced,        \* history: both processes loaded before either began to save
    lastWriter,   \* history: the process whose write of the registry came last
    stIn,         \* status evaluation: the entry and the clock it is applied to
    stOut         \* status evaluation: the status shown

vars == <<regFile, saltFile, now, rnd, budget, pc, reg_pwd, registry, pending,
          salt, blob, out, stored, issued, raced, lastWriter, stIn, stOut>>

\* ------------------------------------------------------------ primitives
\* derive_registry_key: Scrypt(salt, n=2**17, r=8, p=1).derive(password)
derive_registry_key(password, s) == <<password, s>>

\* AESGCM(key).encrypt(nonce, plaintext, None), stored as nonce + ciphertext
CipherLen(entries) == 1 + Len(entries)
AesGcmEncrypt(key, nonce, entries) ==
    [kind |-> "blob", size |-> NonceLen + CipherLen(entries), nonce |-> nonce,
     key |-> key, pt |-> entries]

\* AESGCM(key).decrypt(nonce, ciphertext, None) followed by json.loads: TRUE when
\* it raises nothing
DecryptOk(key, data) == data.kind = "blob" /\ data.key = key

\* Ed25519: private_key.sign(msg) and public_key.verify(signature, msg)
PublicKeyOf(priv) == priv
Ed25519Sign(priv, msg) == [signer |-> PublicKeyOf(priv), msg |-> msg, flip |-> 0]
Ed25519Verify(pub, signature, msg) ==
    signature = [signer |-> pub, msg |-> msg, flip |-> 0]

\* normalize_b64 of the pasted private key: the decoded bytes, or an exception
normalize_b64(raw) ==
    IF raw.b64 THEN [raised |-> FALSE, len |-> raw.len, key |-> raw.key]
    ELSE [raised |-> TRUE, len |-> 0, key |-> 0]

NoHash == << >>
\* a hash that leaves the signature segment out of the digest
HashWithoutSignature(token) == <<"BURN-GLOBAL-V2", <<token[1], token[2]>>>>
\* compute_key_hash: sha256("BURN-GLOBAL-V2:" + token)
compute_key_hash(token) == <<"BURN-GLOBAL-V2", token>>

\* ------------------------------------------------------------- the token
\* json.dumps(license_payload, separators=(',', ':')): the values in the order of
\* the keys c, e, id, n; the Base64URL text of it is a segment
NoPayload == [c |-> "", e |-> 0, id |-> 0, n |-> 0]
PayloadJson(p) == <<p.c, p.e, p.id, p.n>>
B64UrlEncode(bytes) == [b64 |-> bytes]
\* base64.urlsafe_b64decode(payload_b64 + '==') and json.loads
JsonLoadsOk(seg) == Len(seg.b64) = 4
JsonLoads(seg) == [c |-> seg.b64[1], e |-> seg.b64[2], id |-> seg.b64[3], n |-> seg.b64[4]]

NoToken == << >>
Magic == "LXFW"
\* lines 189-206: payload, signature over the Base64URL text, final token
MintToken(priv, client, expiry, id, nonce) ==
    LET payload_b64 == B64UrlEncode(PayloadJson([c |-> client, e |-> expiry,
                                                 id |-> id, n |-> nonce]))
        signature_b64 == B64UrlEncode(Ed25519Sign(priv, payload_b64))
    IN <<Magic, payload_b64, signature_b64>>

\* datetime.fromtimestamp(ms / 1000) raises ValueError outside the years 1..9999
FromTimestampOk(ms) == ms >= TsMin /\ ms <= TsMax

\* ------------------------------------------------------------- entries
NoEntry == [id |-> 0, client |-> "", expiry_ms |-> 0, burn_hash |-> NoHash,
            status |-> "none", nonce |-> 0]
Scaduta == "scaduta"
\* a status that turns to expired already at the instant of expiry
StatusExpiredAtInstant(entry, now_ms) ==
    IF entry.expiry_ms > 0 /\ now_ms >= entry.expiry_ms /\ entry.status # "revoked"
    THEN Scaduta
    ELSE entry.status
\* cmd_list lines 282-291: the status shown for an entry
EffectiveStatus(entry, now_ms) ==
    IF entry.expiry_ms > 0 /\ now_ms > entry.expiry_ms /\ entry.status # "revoked"
    THEN Scaduta
    ELSE entry.status

RECURSIVE MapStatus(_, _)
MapStatus(entries, now_ms) ==
    IF entries = << >> THEN << >>
    ELSE <<EffectiveStatus(Head(entries), now_ms)>> \o MapStatus(Tail(entries), now_ms)

IsPrefix(s, t) == Len(s) <= Len(t) /\ SubSeq(t, 1, Len(s)) = s
IdsOf(entries) == {entries[i].id : i \in 1..Len(entries)}
\* the entries the registry file holds (none when it holds no complete blob)
DiskEntries == IF regFile.kind = "blob" THEN regFile.pt ELSE << >>

\* ------------------------------------------------------ registry store
\* a load that answers a failed decryption with an empty registry
LoadLenient(password) ==
    IF regFile.kind # "absent" /\ saltFile # NoSalt /\ regFile.size >= NonceLen
       /\ DecryptOk(derive_registry_key(password, saltFile), regFile)
    THEN [ret |-> "return", entries |-> regFile.pt, why |-> "ok"]
    ELSE [ret |-> "return", entries |-> << >>, why |-> "nofile"]
\* load_registry (lines 72-97): what it returns, or that it exits
LoadRegistry(password) ==
    IF regFile.kind = "absent"
    THEN [ret |-> "return", entries |-> << >>, why |-> "nofile"]
    ELSE IF saltFile = NoSalt
    THEN [ret |-> "return", entries |-> << >>, why |-> "nosalt"]
    ELSE IF regFile.size < NonceLen
    THEN [ret |-> "return", entries |-> << >>, why |-> "short"]
    ELSE IF DecryptOk(derive_registry_key(password, saltFile), regFile)
    THEN [ret |-> "return", entries |-> regFile.pt, why |-> "ok"]
    ELSE [ret |-> "exit", entries |-> << >>, why |-> "authfail"]

\* get_registry_password (lines 116-131): one prompt when the registry file
\* exists, else two prompts that must agree and be long enough
GetRegistryPassword(pwd1, pwd2) ==
    IF regFile.kind # "absent" THEN [ret |-> "return", pwd |-> pwd1]
    ELSE IF pwd1 # pwd2 THEN [ret |-> "exit", pwd |-> pwd1]
    ELSE IF PwdLen(pwd1) < MinPwdLen THEN [ret |-> "exit", pwd |-> pwd1]
    ELSE [ret |-> "return", pwd |-> pwd1]

\* what a command reports: res is how it ended, load is the branch load_registry
\* took, entry is the entry registered (generate) or found (verify); key_id and
\* confirm are what cmd_generate used, now_ms the clock cmd_verify read
NoOut == [cmd |-> "none", res |-> "none", load |-> "none", token |-> NoToken,
          payload |-> NoPayload, expired |-> FALSE, entry |-> NoEntry,
          warned |-> FALSE, rows |-> << >>, counts |-> << >>,
          key_id |-> NoId, confirm |-> "", now_ms |-> 0]
Report(cmd, res, load) == [NoOut EXCEPT !.cmd = cmd, !.res = res, !.load = load]

\* ------------------------------------------------------------------ Init
NoPending == [token |-> NoToken, entry |-> NoEntry]
NoStatusInput == [entry |-> NoEntry, now_ms |-> 0]

\* before the first run: no registry file, no salt file, no command running
FirstRun ==
    /\ regFile = NoFile
    /\ saltFile = NoSalt
    /\ now = 1
    /\ rnd = 0
    /\ pc = [p \in Procs |-> "idle"]
    /\ reg_pwd = [p \in Procs |-> 0]
    /\ registry = [p \in Procs |-> << >>]
    /\ pending = [p \in Procs |-> NoPending]
    /\ salt = [p \in Procs |-> NoSalt]
    /\ blob = [p \in Procs |-> NoFile]
    /\ out = [p \in Procs |-> NoOut]
    /\ stored = << >>
    /\ issued = {}
    /\ raced = FALSE
    /\ lastWriter = 0
    /\ stOut = "none"

Init ==
    /\ FirstRun
    /\ budget = MaxMint
    /\ stIn = NoStatusInput

disk == <<regFile, saltFile>>
locals == <<reg_pwd, registry, pending, salt, blob>>
statusVars == <<stIn, stOut>>

\* a command of process p ends here with report o, having written nothing
Return(p, o) ==
    /\ out' = [out EXCEPT ![p] = o]
    /\ stored' = DiskEntries
    /\ raced' = FALSE
    /\ UNCHANGED <<disk, pc, locals, issued, lastWriter, statusVars, now>>

\* ---------------------------------------------------------- cmd_generate
\* a parser with no ValueError: text that is not a date is read as TsMin
ParseAnyDate(date) ==
    IF date.kind = "empty" THEN [ok |-> TRUE, ts |-> now + YearTicks]
    ELSE IF date.kind = "date" THEN [ok |-> TRUE, ts |-> date.day]
    ELSE [ok |-> TRUE, ts |-> TsMin]

\* lines 175-187: the expiry for the date typed; ok is FALSE on ValueError
ParseExpiry(date) ==
    IF date.kind = "empty" THEN [ok |-> TRUE, ts |-> now + YearTicks]
    ELSE IF date.kind = "date" THEN [ok |-> TRUE, ts |-> date.day]
    ELSE [ok |-> FALSE, ts |-> 0]

\* lines 229-238
NewEntry(key_id, client_name, expiry_timestamp, final_token, nonce) ==
    [id |-> key_id, client |-> client_name, expiry_ms |-> expiry_timestamp,
     burn_hash |-> compute_key_hash(final_token), status |-> "issued",
     nonce |-> nonce]

\* a duplicate check that never stops the command
DuplicateIgnored(key_id, entries, confirm) == FALSE
\* lines 221-227: the id is taken and the operator does not answer "s"
DuplicateDeclined(key_id, entries, confirm) ==
    key_id \in IdsOf(entries) /\ confirm # "s"

\* the passwords typed at get_registry_password's prompts: one prompt when the
\* registry file exists, two when it does not
PasswordPrompts ==
    IF regFile.kind # "absent" THEN {<<w, w>> : w \in Passwords}
    ELSE Passwords \X Passwords

\* lines 217-240, after the token is minted: password, load, duplicate check,
\* append; the save follows in steps
Register(p, client_name, key_id, expiry_timestamp, nonce, final_token) ==
    \E pw \in PasswordPrompts :
        LET gp == GetRegistryPassword(pw[1], pw[2])
            lr == LoadRegistry(gp.pwd)
            entry == NewEntry(key_id, client_name, expiry_timestamp, final_token, nonce)
        IN
        IF gp.ret = "exit"
        THEN Return(p, Report("generate", "exit", "none"))
        ELSE IF lr.ret = "exit"
        THEN Return(p, Report("generate", "exit", lr.why))
        ELSE \E confirm \in (IF key_id \in IdsOf(lr.entries) THEN Confirms ELSE {""}) :
            IF DuplicateDeclined(key_id, lr.entries, confirm)
            THEN Return(p, [Report("generate", "declined", lr.why)
                              EXCEPT !.warned = TRUE, !.key_id = key_id,
                                     !.confirm = confirm])
            ELSE IF ~FromTimestampOk(expiry_timestamp)
            THEN Return(p, Report("generate", "raised", lr.why))
            ELSE /\ pc' = [pc EXCEPT ![p] = "save_salt"]
                 /\ reg_pwd' = [reg_pwd EXCEPT ![p] = gp.pwd]
                 /\ registry' = [registry EXCEPT ![p] = Append(lr.entries, entry)]
                 /\ pending' = [pending EXCEPT ![p] =
                                  [token |-> final_token, entry |-> entry]]
                 /\ out' = [out EXCEPT ![p] =
                              [Report("generate", "saving", lr.why)
                                 EXCEPT !.warned = key_id \in IdsOf(lr.entries),
                                        !.key_id = key_id, !.confirm = confirm]]
                 /\ stored' = DiskEntries
                 /\ raced' = (\E q \in Procs \ {p} : pc[q] = "save_salt")
                 /\ UNCHANGED <<disk, salt, blob, issued, lastWriter, statusVars, now>>

\* lines 146-215: the prompts, each asked only when the one before it passed,
\* then the token and its self-check
GenerateWith(p, keys, clients, ids, dates) ==
    /\ pc[p] = "idle"
    /\ \E key \in keys :
        LET nb == normalize_b64(key) IN
        IF nb.raised \/ nb.len # KeyLen
        THEN Return(p, Report("generate", "bad_key", "none")) /\ UNCHANGED <<rnd, budget>>
        ELSE \E client_name \in clients :
            IF client_name = ""
            THEN Return(p, Report("generate", "no_client", "none"))
                 /\ UNCHANGED <<rnd, budget>>
            ELSE \E idin \in ids, date \in dates :
                LET key_id == IF idin = NoId THEN AutoIdBase + rnd + 1 ELSE idin
                    exp == ParseExpiry(date)
                    nonce == rnd + 2
                    final_token == MintToken(nb.key, client_name, exp.ts, key_id, nonce)
                IN
                IF ~exp.ok
                THEN Return(p, Report("generate", "bad_date", "none"))
                     /\ UNCHANGED <<rnd, budget>>
                ELSE /\ budget > 0
                     /\ rnd' = rnd + 2
                     /\ budget' = budget - 1
                     /\ IF ~Ed25519Verify(PublicKeyOf(nb.key), final_token[3].b64,
                                          final_token[2])
                        THEN Return(p, Report("generate", "bad_signature", "none"))
                        ELSE Register(p, client_name, key_id, exp.ts, nonce, final_token)

\* ---------------------------------------------------------- save_registry
\* lines 108-112: the key, a fresh nonce, the ciphertext
Encrypt(password, s, nonce, entries) ==
    AesGcmEncrypt(derive_registry_key(password, s), nonce, entries)

\* a save that draws a salt whether or not the salt file is there
SaveFreshSalt(p) ==
    /\ pc[p] = "save_salt"
    /\ salt' = [salt EXCEPT ![p] = rnd + 1]
    /\ rnd' = rnd + 1
    /\ pc' = [pc EXCEPT ![p] = "salt_open"]
    /\ UNCHANGED <<disk, now, budget, reg_pwd, registry, pending, blob, out, stored,
                   issued, raced, lastWriter, statusVars>>

\* lines 102-106: the salt file is looked for; when it is there it is read and
\* lines 108-112 follow, when it is not a salt is drawn
SaveSalt(p) ==
    /\ pc[p] = "save_salt"
    /\ IF saltFile = NoSalt
       THEN /\ salt' = [salt EXCEPT ![p] = rnd + 1]
            /\ rnd' = rnd + 1
            /\ pc' = [pc EXCEPT ![p] = "salt_open"]
            /\ blob' = blob
       ELSE /\ salt' = [salt EXCEPT ![p] = saltFile]
            /\ rnd' = rnd + 1
            /\ blob' = [blob EXCEPT ![p] =
                          Encrypt(reg_pwd[p], saltFile, rnd + 1, registry[p])]
            /\ pc' = [pc EXCEPT ![p] = "save_open"]
    /\ UNCHANGED <<disk, now, budget, reg_pwd, registry, pending, out, stored,
                   issued, raced, lastWriter, statusVars>>

\* line 104, REGISTRY_SALT_FILE.write_bytes: open(mode='wb') creates the file
SaltOpen(p) ==
    /\ pc[p] = "salt_open"
    /\ saltFile' = EmptySalt
    /\ pc' = [pc EXCEPT ![p] = "salt_write"]
    /\ UNCHANGED <<regFile, now, rnd, budget, locals, out, stored, issued, raced,
                   lastWriter, statusVars>>

\* line 104, write and close, then lines 108-112
SaltWrite(p) ==
    /\ pc[p] = "salt_write"
    /\ saltFile' = salt[p]
    /\ rnd' = rnd + 1
    /\ blob' = [blob EXCEPT ![p] = Encrypt(reg_pwd[p], salt[p], rnd + 1, registry[p])]
    /\ pc' = [pc EXCEPT ![p] = "save_open"]
    /\ UNCHANGED <<regFile, now, budget, reg_pwd, registry, pending, salt, out,
                   stored, issued, raced, lastWriter, statusVars>>

\* line 113, REGISTRY_FILE.write_bytes: open(mode='wb') truncates the file
SaveOpen(p) ==
    /\ pc[p] = "save_open"
    /\ regFile' = ShortFile(0)
    /\ pc' = [pc EXCEPT ![p] = "save_write"]
    /\ UNCHANGED <<saltFile, now, rnd, budget, locals, out, stored, issued, raced,
                   lastWriter, statusVars>>

\* the bytes data leave in a file written from offset 0: a longer content
\* already there keeps its tail
WriteAtStart(file, data) ==
    IF file.size <= data.size THEN data ELSE TornFile(file.size)

\* line 113, write and close, then lines 242-259: the token is printed
SaveWrite(p) ==
    /\ pc[p] = "save_write"
    /\ regFile' = WriteAtStart(regFile, blob[p])
    /\ lastWriter' = p
    /\ issued' = issued \cup {pending[p].token}
    /\ out' = [out EXCEPT ![p] = [@ EXCEPT !.res = "ok", !.token = pending[p].token,
                                             !.entry = pending[p].entry]]
    /\ pc' = [pc EXCEPT ![p] = "idle"]
    /\ UNCHANGED <<saltFile, now, rnd, budget, locals, stored, raced, statusVars>>

\* ------------------------------------------------- the read-only commands
\* cmd_list lines 262-293
CmdList(p, pwd1, pwd2) ==
    LET gp == GetRegistryPassword(pwd1, pwd2)
        lr == LoadRegistry(gp.pwd)
    IN
    /\ pc[p] = "idle"
    /\ Return(p, IF gp.ret = "exit" THEN Report("list", "exit", "none")
                 ELSE IF lr.ret = "exit" THEN Report("list", "exit", lr.why)
                 ELSE IF lr.entries = << >> THEN Report("list", "empty", lr.why)
                 ELSE [Report("list", "ok", lr.why)
                         EXCEPT !.rows = MapStatus(lr.entries, now)])
    /\ UNCHANGED <<rnd, budget>>

RECURSIVE StoredStatus(_)
StoredStatus(entries) ==
    IF entries = << >> THEN << >>
    ELSE <<Head(entries).status>> \o StoredStatus(Tail(entries))

\* cmd_export lines 363-388: one CSV row per entry, with the stored status
CmdExport(p, pwd1, pwd2) ==
    LET gp == GetRegistryPassword(pwd1, pwd2)
        lr == LoadRegistry(gp.pwd)
    IN
    /\ pc[p] = "idle"
    /\ Return(p, IF gp.ret = "exit" THEN Report("export", "exit", "none")
                 ELSE IF lr.ret = "exit" THEN Report("export", "exit", lr.why)
                 ELSE IF lr.entries = << >> THEN Report("export", "empty", lr.why)
                 ELSE [Report("export", "ok", lr.why)
                         EXCEPT !.rows = StoredStatus(lr.entries)])
    /\ UNCHANGED <<rnd, budget>>

\* sum(1 for e in registry if ...): the number of positions that pass the test
CountIf(passing) == Cardinality(passing)

\* cmd_stats lines 396-406: total, active, activated, revoked, expired
StatsCounts(entries, now_ms) ==
    LET Pos == 1..Len(entries)
        active == {i \in Pos : /\ entries[i].status = "issued"
                               /\ entries[i].expiry_ms > now_ms}
        activated == {i \in Pos : entries[i].status = "activated"}
        revoked == {i \in Pos : entries[i].status = "revoked"}
        expired == {i \in Pos : /\ entries[i].expiry_ms > 0
                                /\ now_ms > entries[i].expiry_ms
                                /\ entries[i].status # "revoked"}
    IN <<Len(entries), CountIf(active), CountIf(activated),
         CountIf(revoked), CountIf(expired)>>

\* cmd_stats lines 391-430
CmdStats(p, pwd1, pwd2) ==
    LET gp == GetRegistryPassword(pwd1, pwd2)
        lr == LoadRegistry(gp.pwd)
    IN
    /\ pc[p] = "idle"
    /\ Return(p, IF gp.ret = "exit" THEN Report("stats", "exit", "none")
                 ELSE IF lr.ret = "exit" THEN Report("stats", "exit", lr.why)
                 ELSE [Report("stats", "ok", lr.why)
                         EXCEPT !.counts = StatsCounts(lr.entries, now)])
    /\ UNCHANGED <<rnd, budget>>

\* ------------------------------------------------------------ cmd_verify
\* lines 341-358: the entries whose burn_hash is the token's, the first of them
FindByHash(entries, burn_hash) ==
    LET found == SelectSeq(entries, LAMBDA e : e.burn_hash = burn_hash)
    IN IF found # << >> THEN Head(found) ELSE NoEntry

\* lines 317-360: what cmd_verify reports for a token
VerifyReport(token, pwd1, pwd2) ==
    IF Len(token) # 3 \/ token[1] # Magic
    THEN Report("verify", "bad_format", "none")
    ELSE IF ~JsonLoadsOk(token[2])
    THEN Report("verify", "bad_payload", "none")
    ELSE LET payload == JsonLoads(token[2])
             expiry_ms == payload.e
             gp == GetRegistryPassword(pwd1, pwd2)
             lr == LoadRegistry(gp.pwd)
             now_ms == now
             shown == [Report("verify", "parsed", "none")
                         EXCEPT !.token = token, !.payload = payload,
                                !.now_ms = now_ms, !.expired = now_ms > expiry_ms]
         IN IF ~FromTimestampOk(expiry_ms)
            THEN [Report("verify", "raised", "none")
                    EXCEPT !.token = token, !.payload = payload]
            ELSE IF gp.ret = "exit" THEN [shown EXCEPT !.load = "exit"]
            ELSE IF lr.ret = "exit" THEN [shown EXCEPT !.load = lr.why]
            ELSE [shown EXCEPT !.load = lr.why,
                               !.entry = FindByHash(lr.entries, compute_key_hash(token))]

\* the tokens an operator may paste: the issued ones, an issued one with a byte
\* of the payload segment or of the signature segment changed, tokens made
\* without the private key, and text that is no token
OtherKey == 2
TamperPayload(t) ==
    {<<t[1], B64UrlEncode([t[2].b64 EXCEPT ![2] = @ + 1]), t[3]>>,
     <<t[1], B64UrlEncode(<< >>), t[3]>>}
TamperSignature(t) ==
    {<<t[1], t[2], B64UrlEncode([t[3].b64 EXCEPT !.flip = 1])>>}
ForgedTokens ==
    {MintToken(OtherKey, "Acme", e, 1, 0) : e \in {TsMin - 1, 0, TsMax + 1}}
NotTokens ==
    {<<Magic, B64UrlEncode(PayloadJson(NoPayload))>>,
     <<"LXFV", B64UrlEncode(PayloadJson(NoPayload)), B64UrlEncode(Ed25519Sign(OtherKey, 0))>>}
TokenInputs ==
    issued \cup UNION {TamperPayload(t) \cup TamperSignature(t) : t \in issued}
           \cup ForgedTokens \cup NotTokens

CmdVerify(p, token, pwd1, pwd2) ==
    /\ pc[p] = "idle"
    /\ Return(p, VerifyReport(token, pwd1, pwd2))
    /\ UNCHANGED <<rnd, budget>>

\* ------------------------------------------------------------ the clock
Tick ==
    /\ now < MaxNow
    /\ now' = now + 1
    /\ UNCHANGED <<disk, rnd, budget, pc, locals, out, stored, issued, raced,
                   lastWriter, statusVars>>

\* ------------------------------------------------------- specifications
\* cmd_generate with whatever the operator may type
Generate(p) == GenerateWith(p, KeyInputs, Clients, IdInputs, DateInputs)
\* cmd_generate by an operator who types the key, a client name, an id or
\* nothing, and no date
GenerateNoTypo(p) ==
    GenerateWith(p, {k \in KeyInputs : k.b64 /\ k.len = KeyLen}, Clients \ {""},
                 IdInputs, {d \in DateInputs : d.kind = "empty"})
List(p) == \E pw \in PasswordPrompts : CmdList(p, pw[1], pw[2])
Export(p) == \E pw \in PasswordPrompts : CmdExport(p, pw[1], pw[2])
Stats(p) == \E pw \in PasswordPrompts : CmdStats(p, pw[1], pw[2])
Verify(p) ==
    \E token \in TokenInputs, pw \in PasswordPrompts : CmdVerify(p, token, pw[1], pw[2])

\* one operator, one command at a time, every command running to its end
Next ==
    \/ Generate(Operator)
    \/ SaveSalt(Operator)
    \/ SaltOpen(Operator)
    \/ SaltWrite(Operator)
    \/ SaveOpen(Operator)
    \/ SaveWrite(Operator)
    \/ List(Operator)
    \/ Export(Operator)
    \/ Stats(Operator)
    \/ Verify(Operator)
    \/ Tick

Spec == Init /\ [][Next]_vars

\* two processes run cmd_generate with no lock between them
InitRace ==
    /\ FirstRun
    /\ budget = MaxRaceMint
    /\ stIn = NoStatusInput

NextRace ==
    \E p \in Procs :
        \/ GenerateNoTypo(p)
        \/ SaveSalt(p)
        \/ SaltOpen(p)
        \/ SaltWrite(p)
        \/ SaveOpen(p)
        \/ SaveWrite(p)

SpecRace == InitRace /\ [][NextRace]_vars

\* the process is killed (SIGKILL, power loss) inside save_registry
Interrupt(p) ==
    /\ pc[p] \in {"save_salt", "salt_open", "salt_write", "save_open", "save_write"}
    /\ pc' = [pc EXCEPT ![p] = "idle"]
    /\ out' = [out EXCEPT ![p] = [@ EXCEPT !.res = "killed"]]
    /\ UNCHANGED <<disk, now, rnd, budget, locals, stored, issued, raced,
                   lastWriter, statusVars>>

NextKill == Next \/ Interrupt(Operator)

SpecKill == Init /\ [][NextKill]_vars

\* the same with the tokens given to cmd_verify taken from the issued ones:
\* every command, a kill at every step of save_registry
VerifyIssued(p) ==
    \E token \in issued, pw \in PasswordPrompts : CmdVerify(p, token, pw[1], pw[2])
NextSalt ==
    \/ Generate(Operator)
    \/ SaveSalt(Operator)
    \/ SaltOpen(Operator)
    \/ SaltWrite(Operator)
    \/ SaveOpen(Operator)
    \/ SaveWrite(Operator)
    \/ Interrupt(Operator)
    \/ List(Operator)
    \/ Export(Operator)
    \/ Stats(Operator)
    \/ VerifyIssued(Operator)
    \/ Tick

SpecSalt == Init /\ [][NextSalt]_vars

\* between two commands the files are damaged from outside: the salt file is
\* lost, a byte of the registry file is changed, the registry file is cut
Idle == \A p \in Procs : pc[p] = "idle"
LoseSalt ==
    /\ Idle
    /\ saltFile # NoSalt
    /\ saltFile' = NoSalt
    /\ UNCHANGED <<regFile, now, rnd, budget, pc, locals, out, stored, issued,
                   raced, lastWriter, statusVars>>
TamperFile ==
    /\ Idle
    /\ regFile.kind = "blob"
    /\ regFile' = TornFile(regFile.size)
    /\ UNCHANGED <<saltFile, now, rnd, budget, pc, locals, out, stored, issued,
                   raced, lastWriter, statusVars>>
TruncateFile ==
    /\ Idle
    /\ regFile.kind = "blob"
    /\ \E n \in {0, NonceLen - 1, NonceLen} :
          regFile' = IF n < NonceLen THEN ShortFile(n) ELSE TornFile(n)
    /\ UNCHANGED <<saltFile, now, rnd, budget, pc, locals, out, stored, issued,
                   raced, lastWriter, statusVars>>

NextFault ==
    \/ GenerateNoTypo(Operator)
    \/ SaveSalt(Operator)
    \/ SaltOpen(Operator)
    \/ SaltWrite(Operator)
    \/ SaveOpen(Operator)
    \/ SaveWrite(Operator)
    \/ List(Operator)
    \/ Export(Operator)
    \/ Stats(Operator)
    \/ Verify(Operator)
    \/ LoseSalt
    \/ TamperFile
    \/ TruncateFile

SpecFault == Init /\ [][NextFault]_vars

\* the status shown for an entry, for every stored status, expiry and clock
Statuses == {"issued", "activated", "revoked"}
InitStatus ==
    /\ FirstRun
    /\ budget = 0
    /\ stIn \in {[entry |-> [NoEntry EXCEPT !.status = st, !.expiry_ms = e], now_ms |-> t] :
                    st \in Statuses, e \in (0 - 1)..(MaxNow + 1), t \in 1..(MaxNow + 2)}

ShowStatus ==
    /\ stOut = "none"
    /\ stOut' = EffectiveStatus(stIn.entry, stIn.now_ms)
    /\ UNCHANGED <<disk, now, rnd, budget, pc, locals, out, stored, issued, raced,
                   lastWriter, stIn>>

SpecStatus == InitStatus /\ [][ShowStatus]_vars

\* --------------------------------------------------------------- claims
Other(p) == CHOOSE q \in Procs : q # p
Report1 == out[Operator]
WellFormed(token) == Len(token) = 3 /\ token[1] = Magic /\ JsonLoadsOk(token[2])
InSave(p) == pc[p] \in {"save_salt", "salt_open", "salt_write", "save_open", "save_write"}

\* C1: when the registry file exists but cannot be authenticated and decrypted
\* (wrong password, or a corrupted, truncated or tampered file), load_registry
\* returns nothing and the command ends there: no command goes on with an
\* empty list. cmd_verify catches the exit and ends without a registry line.
C1_UnreadableIsFatal ==
    \A p \in Procs :
        out[p].load \in {"short", "authfail"} =>
            \/ out[p].res = "exit"
            \/ out[p].cmd = "verify" /\ out[p].load = "authfail" /\ out[p].entry = NoEntry

\* C2: when the registry file exists and the salt file is missing, the command
\* aborts: load_registry returns no empty registry, and no generate goes on to
\* create a salt and write the registry file.
C2_MissingSaltIsFatal ==
    \A p \in Procs : out[p].load = "nosalt" => out[p].res = "exit" /\ ~InSave(p)

\* C3: with commands run one at a time, the entries on disk after a command
\* extend the entries on disk before it: a generate that saved added exactly
\* one entry at the end, every other command left them as they were.
C3_AppendOnly ==
    Idle =>
        /\ IsPrefix(stored, DiskEntries)
        /\ IF Report1.cmd = "generate" /\ Report1.res = "ok"
           THEN Len(DiskEntries) = Len(stored) + 1
           ELSE DiskEntries = stored
C3_Witness ==
    /\ Idle
    /\ Report1.cmd = "generate" /\ Report1.res = "ok"
    /\ Len(stored) = 1 /\ Len(DiskEntries) = 2

\* C4: a save interrupted at any point leaves the registry file holding the
\* complete previous content or the complete new content, never a half-written
\* or missing one.
C4_SaveIsAtomic ==
    \A p \in Procs :
        out[p].res = "killed" =>
            /\ regFile.kind \in {"absent", "blob"}
            /\ DiskEntries \in {stored, registry[p]}

\* C5: cmd_verify shows a payload as parsed only for a token whose signature
\* segment is the Ed25519 signature of the payload segment's text; a token with
\* a changed payload or signature segment is not shown as parsed.
C5_VerifyChecksSignature ==
    \A p \in Procs :
        out[p].cmd = "verify" /\ out[p].res = "parsed" =>
            Ed25519Verify(PublicKeyOf(TheKey), out[p].token[3].b64, out[p].token[2])

\* C6: a generate whose id is among the entries it loaded warns of the
\* duplicate, and unless the operator answered "s" it ends at once with the
\* registry entries as they were: nothing appended, no save begun.
C6_NoSilentDuplicate ==
    \A p \in Procs :
        (/\ out[p].cmd = "generate"
         /\ out[p].load = "ok"
         /\ out[p].key_id \in IdsOf(stored)) =>
            /\ out[p].warned
            /\ out[p].confirm # "s" =>
                  /\ out[p].res = "declined"
                  /\ pc[p] = "idle"
                  /\ DiskEntries = stored
C6_Witness ==
    /\ Report1.cmd = "generate" /\ Report1.res = "declined"
    /\ Report1.key_id \in IdsOf(stored)
    /\ Report1.confirm = "n"
    /\ Len(DiskEntries) = 1

\* both processes loaded before either began to save, and both have saved
RaceOver ==
    /\ raced
    /\ Idle
    /\ \A p \in Procs : out[p].cmd = "generate" /\ out[p].res = "ok"

\* C7: when both processes opened the registry before either saved, the
\* registry after both saves holds the entries of the process that saved last
\* (what it loaded and its own entry) and not the entry of the other process.
C7_LastSaverWins ==
    RaceOver =>
        /\ DiskEntries = registry[lastWriter]
        /\ \A i \in 1..Len(DiskEntries) :
              DiskEntries[i] # pending[Other(lastWriter)].entry

\* the lost update itself: the other process's token was printed, its entry is
\* not in the registry
C7_Witness ==
    /\ RaceOver
    /\ regFile = blob[lastWriter]
    /\ Len(DiskEntries) = 2
    /\ pending[Other(lastWriter)].token \in issued
    /\ \A i \in 1..Len(DiskEntries) :
          DiskEntries[i] # pending[Other(lastWriter)].entry

\* C8: after a generate that saved, the entries on disk are the entries from
\* before and one new entry, with status issued, with the id, client and
\* expiry of the token's payload and with the burn hash of the token; a verify
\* that opens the registry finds, for an issued token, the entry with that
\* token's burn hash, and for any other token no entry and no error.
C8_IssuedEntry ==
    /\ Report1.cmd = "generate" /\ Report1.res = "ok" =>
          LET payload == JsonLoads(Report1.token[2]) IN
          /\ DiskEntries = Append(stored, Report1.entry)
          /\ Report1.entry.status = "issued"
          /\ Report1.entry.id = payload.id
          /\ Report1.entry.client = payload.c
          /\ Report1.entry.expiry_ms = payload.e
          /\ Report1.entry.burn_hash = <<"BURN-GLOBAL-V2", Report1.token>>
    /\ Report1.cmd = "verify" /\ Report1.res = "parsed" /\ Report1.load = "ok" =>
          IF Report1.token \in issued
          THEN /\ \E i \in 1..Len(DiskEntries) : DiskEntries[i] = Report1.entry
               /\ Report1.entry.burn_hash = <<"BURN-GLOBAL-V2", Report1.token>>
               /\ Report1.entry.nonce = Report1.payload.n
          ELSE Report1.entry = NoEntry
C8_Witness ==
    /\ Report1.cmd = "verify" /\ Report1.res = "parsed" /\ Report1.load = "ok"
    /\ Report1.token \in issued
    /\ Len(DiskEntries) = 2
    /\ Report1.entry = DiskEntries[1]

\* C9: the status shown is expired exactly when expiry_ms > 0, now_ms >
\* expiry_ms and the stored status is not revoked; otherwise it is the stored
\* status.
C9_EffectiveStatus ==
    stOut # "none" =>
        LET isExpired == /\ stIn.entry.expiry_ms > 0
                         /\ stIn.now_ms > stIn.entry.expiry_ms
                         /\ stIn.entry.status # "revoked"
        IN /\ (stOut = Scaduta) <=> isExpired
           /\ ~isExpired => stOut = stIn.entry.status
C9_Witness ==
    /\ stOut = "revoked"
    /\ stIn.entry.expiry_ms > 0
    /\ stIn.now_ms > stIn.entry.expiry_ms

\* C10: for every well-formed token cmd_verify shows the parsed payload with
\* expired = (now_ms > e); a payload with zero or negative e is shown, as
\* expired.
C10_ExpiryIsNonFatal ==
    \A p \in Procs :
        out[p].cmd = "verify" /\ WellFormed(out[p].token) =>
            /\ out[p].res = "parsed"
            /\ out[p].expired = (out[p].now_ms > out[p].payload.e)
            /\ out[p].payload.e <= 0 => out[p].expired

\* C11: a generate that stops at a validation (the key is not 32 bytes of
\* Base64, the client name is empty, the date is not a date) ends in one step
\* with no token printed or issued and with the registry file and the salt
\* file as they were; and every token ever issued carries a client name that is
\* not empty, an expiry that is a typed date or the default of one year, and
\* the signature of the 32-byte key.
ValidationFailures == {"bad_key", "no_client", "bad_date"}
ValidExpiries == Days \cup {n + YearTicks : n \in 0..MaxNow}
C11_FailedStep ==
    \A p \in Procs :
        /\ pc[p] = "idle"
        /\ out'[p].cmd = "generate"
        /\ out'[p].res \in ValidationFailures
        => /\ regFile' = regFile
           /\ saltFile' = saltFile
           /\ pc'[p] = "idle"
           /\ issued' = issued
           /\ out'[p].token = NoToken
           /\ out'[p].entry = NoEntry
C11_IssuedFromValid ==
    \A token \in issued :
        /\ JsonLoads(token[2]).c # ""
        /\ JsonLoads(token[2]).e \in ValidExpiries
        /\ Ed25519Verify(PublicKeyOf(TheKey), token[3].b64, token[2])
C11_ValidationIsSideEffectFree ==
    [][C11_FailedStep]_vars /\ []C11_IssuedFromValid
\* a bad date typed when a registry with an entry is on disk
C11_Witness ==
    /\ Report1.cmd = "generate"
    /\ Report1.res = "bad_date"
    /\ regFile.kind = "blob"
    /\ saltFile # NoSalt
    /\ Len(DiskEntries) = 1

\* C12: in every state reached by commands run one after the other, a save cut
\* short at any point included: the salt file changes only while there is no
\* registry file, from missing to created and from created to the drawn salt,
\* never from one salt to another; when the registry file exists the salt file
\* exists, and a complete registry file is encrypted under a key derived from
\* the salt in the salt file.
C12_SaltStep ==
    saltFile' # saltFile =>
        /\ regFile.kind = "absent"
        /\ regFile' = regFile
        /\ \/ saltFile = NoSalt /\ saltFile' = EmptySalt
           \/ saltFile = EmptySalt /\ saltFile' \notin {NoSalt, EmptySalt}
C12_SaltOfRegistry ==
    /\ regFile.kind # "absent" => saltFile # NoSalt
    /\ regFile.kind = "blob" =>
          \E password \in Passwords :
              regFile.key = derive_registry_key(password, saltFile)
C12_SaltLifecycle ==
    [][C12_SaltStep]_vars /\ []C12_SaltOfRegistry
\* a later save was cut short and the registry of the first save is still
\* readable under the salt of the first save
C12_Witness ==
    /\ Report1.cmd = "generate"
    /\ Report1.res = "killed"
    /\ regFile.kind = "blob"
    /\ Len(DiskEntries) = 1
    /\ saltFile \notin {NoSalt, EmptySalt}
    /\ regFile.key[2] = saltFile

\* C13: in the output of a stats command that opened the registry each entry
\* is counted in exactly one of active, activated, revoked and expired: the
\* four counts add up to the total.
C13_StatsPartition ==
    \A p \in Procs :
        out[p].cmd = "stats" /\ out[p].res = "ok" =>
            LET c == out[p].counts IN c[2] + c[3] + c[4] + c[5] = c[1]

====
